---------------------------- MODULE Spec2Model ----------------------------
(***************************************************************************)
(* A model of CommondX (mac-commondX): the cut manager of                  *)
(* src/src/cut_manager.py, its paste handler in src/src/app.py and the     *)
(* repeated-copy detector CommondXApp.on_copy of src/src/app.py.           *)
(*                                                                         *)
(* Seven specifications share the variables:                               *)
(*   Spec      the cut manager: cut, paste, on_paste, clear and the        *)
(*             smart operation that resets last_selection;                 *)
(*   SpecCopy  the copy handler, on a clock of tenths of a second;         *)
(*   SpecCooldown  the copy handler with the time of each content's last   *)
(*             trigger kept beside it;                                     *)
(*   SpecTap   the keyboard hook EventTap of src/src/event_tap.py;         *)
(*   SpecRestore  EventTap with the recovery handler _restoreEventTap_     *)
(*             and the system disabling a hook by timeout;                 *)
(*   SpecApp   the permission poll and the manual retry of                 *)
(*             src/src/app.py, with weak fairness of the poll timer;       *)
(*   SpecSame  the pure function CutManager._is_same_selection.            *)
(***************************************************************************)
EXTENDS Naturals, Sequences, FiniteSets

VARIABLES
    cut_files,        \* CutManager.cut_files: a list of paths
    last_selection,   \* CutManager.last_selection: None or a list of paths
    has_cached_files, \* whether StatusBarIcon.cached_files is non-empty
    last,             \* observation: the operation that ran last
    prev,             \* observation: a summary of the operation before it
    scen,             \* observation: progress of the cut..cut..paste scenario
    cmp,              \* SpecSame: the arguments and the result of a comparison
    now,                      \* the clock, in tenths of a second
    last_clipboard_content,   \* CommondXApp.last_clipboard_content
    last_copy_time,           \* CommondXApp.last_copy_time
    last_triggered_content,   \* CommondXApp.last_triggered_content
    last_triggered_time,      \* CommondXApp.last_triggered_time
    current_alert,            \* whether CommondXApp._current_alert is not None
    popup,            \* the on_copy call suspended in the result popup
    ev,               \* observation: the copy event handled last
    cscen,            \* observation: progress of the repeated-copy scenario
    tap,              \* EventTap.tap: 0 for None, else the hook it holds
    running,          \* EventTap.running
    hooks,            \* how many hooks CGEventTapCreate has made so far
    registered,       \* the hooks whose source is on the run loop
    enabled,          \* the hooks that are enabled
    tapobs,           \* observation: the EventTap operation that ran last
    dead,             \* the hooks the system disabled by timeout for good
    granted,          \* SpecApp: whether the process is trusted right now
    launched,         \* whether applicationDidFinishLaunching_ has run
    perm_count,       \* CommondXApp._perm_count
    timers,           \* the selectors a repeating NSTimer is scheduled for
    restore_attempts, \* CommondXApp._restore_event_tap_attempts
    notified,         \* the notifications sent so far
    appobs,           \* observation: the CommondXApp operation that ran last
    triggers          \* SpecCooldown: per content, when it last triggered

cutVars == <<cut_files, last_selection, has_cached_files, last, prev, scen>>
copyVars == <<now, last_clipboard_content, last_copy_time,
              last_triggered_content, last_triggered_time, current_alert,
              popup, ev, cscen>>
tapVars == <<tap, running, hooks, registered, enabled, tapobs, dead>>
appVars == <<granted, launched, perm_count, timers, restore_attempts,
             notified, appobs>>

-----------------------------------------------------------------------------
(* Bounds and the values inputs are drawn from.                            *)

\* The longest list of paths the host reports in one selection.
MaxSel == 2

\* The paths the host can report.  Which of them are on disk is the
\* environment's: every call that looks is given the set that exists then.
Paths == {"f1", "f2"}

RECURSIVE SeqsUpTo(_, _)
SeqsUpTo(S, n) ==
    IF n = 0 THEN {<<>>}
    ELSE LET shorter == SeqsUpTo(S, n - 1)
         IN  shorter \cup {Append(s, x) : s \in shorter, x \in S}

\* What get_finder_selection can return: any list of paths, in any order,
\* with or without repeated entries; the empty list when nothing is selected
\* or the script failed (run_script returns "").
Selections == SeqsUpTo(Paths, MaxSel)

\* What get_finder_current_folder can return: "" (failure or timeout), a
\* folder that exists, a folder that does not.
Targets == {"", "/dest", "/gone"}

\* Path(target).exists() for the folders of Targets.
TargetExists(t) == t = "/dest"

\* What the move script can return: "OK", an error text, "" (run_script's
\* answer to a timeout or a non-zero exit).
MoveReplies == {"OK", "Error: busy", ""}

SetOf(s) == {s[i] : i \in 1..Len(s)}

-----------------------------------------------------------------------------
(* Python values.                                                          *)

\* last_selection is None or a list.
None == [isNone |-> TRUE, list |-> <<>>]
Some(l) == [isNone |-> FALSE, list |-> l]

\* Python truth of an optional list: None and [] are false.
Truthy(x) == ~x.isNone /\ x.list # <<>>

\* [f for f in files if Path(f).exists()]
Valid(files, ex) == SelectSeq(files, LAMBDA f : f \in ex)

-----------------------------------------------------------------------------
(* CutManager._is_same_selection(current, last)                            *)

\* A variant that compares the lists, not their sets.
is_same_selection_ordered(current, lastSel) ==
    IF ~Truthy(current) /\ ~Truthy(lastSel) THEN TRUE
    ELSE IF ~Truthy(current) \/ ~Truthy(lastSel) THEN FALSE
    ELSE current.list = lastSel.list

is_same_selection(current, lastSel) ==
    IF ~Truthy(current) /\ ~Truthy(lastSel) THEN TRUE
    ELSE IF ~Truthy(current) \/ ~Truthy(lastSel) THEN FALSE
    ELSE SetOf(current.list) = SetOf(lastSel.list)


-----------------------------------------------------------------------------
(* The scripting bridge: the calls an operation issues, in order.          *)

SelectionQuery == [cmd |-> "selection", files |-> <<>>, to |-> ""]
FolderQuery == [cmd |-> "folder", files |-> <<>>, to |-> ""]
MoveCommand(files, target) == [cmd |-> "move", files |-> files, to |-> target]

\* The (success, message) texts of paste(), kept apart by kind; text is the
\* bridge output interpolated into the message, count the number in it.
Msg(kind, text, count) == [kind |-> kind, text |-> text, count |-> count]
NoMsg == Msg("", "", 0)

-----------------------------------------------------------------------------
(* CutManager.cut(), as a function of what get_finder_selection returned    *)
(* (files), the fields before the call (lastSel, cutFiles) and the paths    *)
(* on disk.  Gives the returned pair, the fields after the call, the        *)
(* bridge calls issued and the lists delivered to on_state_change.          *)

\* Variants of cut(): one that assigns cut_files on a repeat too, one that
\* appends to cut_files, one that compares after last_selection is updated.
cut_reassign_on_repeat(files, lastSel, cutFiles, ex) ==
    LET is_same == is_same_selection(Some(files), lastSel)
        valid == Valid(files, ex)
        base == [success |-> FALSE, should_show_dialog |-> FALSE,
                 last_selection |-> Some(files), cut_files |-> cutFiles,
                 calls |-> <<SelectionQuery>>, notify |-> <<>>]
    IN  IF files = <<>> THEN base
        ELSE IF valid = <<>> THEN base
        ELSE [base EXCEPT !.success = TRUE, !.should_show_dialog = is_same,
                          !.cut_files = valid, !.notify = <<valid>>]

cut_accumulate(files, lastSel, cutFiles, ex) ==
    LET is_same == is_same_selection(Some(files), lastSel)
        valid == Valid(files, ex)
        base == [success |-> FALSE, should_show_dialog |-> FALSE,
                 last_selection |-> Some(files), cut_files |-> cutFiles,
                 calls |-> <<SelectionQuery>>, notify |-> <<>>]
    IN  IF files = <<>> THEN base
        ELSE IF valid = <<>> THEN base
        ELSE IF is_same
             THEN [base EXCEPT !.success = TRUE, !.should_show_dialog = TRUE]
        ELSE [base EXCEPT !.success = TRUE, !.cut_files = cutFiles \o valid,
                          !.notify = <<cutFiles \o valid>>]

cut_compare_after_update(files, lastSel, cutFiles, ex) ==
    LET is_same == is_same_selection(Some(files), Some(files))
        valid == Valid(files, ex)
        base == [success |-> FALSE, should_show_dialog |-> FALSE,
                 last_selection |-> Some(files), cut_files |-> cutFiles,
                 calls |-> <<SelectionQuery>>, notify |-> <<>>]
    IN  IF files = <<>> THEN base
        ELSE IF valid = <<>> THEN base
        ELSE IF is_same
             THEN [base EXCEPT !.success = TRUE, !.should_show_dialog = TRUE]
        ELSE [base EXCEPT !.success = TRUE, !.cut_files = valid,
                          !.notify = <<valid>>]

\* A variant of cut() that reports an empty selection found after an empty
\* one as a repeat.
cut_empty_is_repeat(files, lastSel, cutFiles, ex) ==
    LET is_same == is_same_selection(Some(files), lastSel)
        valid == Valid(files, ex)
        base == [success |-> FALSE, should_show_dialog |-> FALSE,
                 last_selection |-> Some(files), cut_files |-> cutFiles,
                 calls |-> <<SelectionQuery>>, notify |-> <<>>]
    IN  IF files = <<>>
        THEN [base EXCEPT !.success = is_same,
                          !.should_show_dialog = is_same]
        ELSE IF valid = <<>> THEN base
        ELSE IF is_same
             THEN [base EXCEPT !.success = TRUE, !.should_show_dialog = TRUE]
        ELSE [base EXCEPT !.success = TRUE, !.cut_files = valid,
                          !.notify = <<valid>>]

cut(files, lastSel, cutFiles, ex) ==
    LET is_same == is_same_selection(Some(files), lastSel)
        valid == Valid(files, ex)
        base == [success |-> FALSE, should_show_dialog |-> FALSE,
                 last_selection |-> Some(files), cut_files |-> cutFiles,
                 calls |-> <<SelectionQuery>>, notify |-> <<>>]
    IN  IF files = <<>> THEN base
        ELSE IF valid = <<>> THEN base
        ELSE IF is_same
             THEN [base EXCEPT !.success = TRUE, !.should_show_dialog = TRUE]
        ELSE [base EXCEPT !.success = TRUE, !.cut_files = valid,
                          !.notify = <<valid>>]

(* CutManager.paste(), as a function of cut_files, of what                  *)
(* get_finder_current_folder returned (target) and of what the move script  *)
(* returned (output).                                                       *)

\* Variants of paste(): one without the empty check, one that counts the
\* files after clearing the list, one that clears the list when the move
\* failed.
paste_no_empty_check(cutFiles, target, output) ==
    IF target = "" \/ ~TargetExists(target)
    THEN [ok |-> FALSE, msg |-> Msg("invalid_target", "", 0),
          cut_files |-> cutFiles, calls |-> <<FolderQuery>>, notify |-> <<>>]
    ELSE IF output = "OK"
    THEN [ok |-> TRUE, msg |-> Msg("moved", "", Len(cutFiles)),
          cut_files |-> <<>>,
          calls |-> <<FolderQuery, MoveCommand(cutFiles, target)>>,
          notify |-> << <<>> >>]
    ELSE [ok |-> FALSE, msg |-> Msg("move_failed", output, 0),
          cut_files |-> cutFiles,
          calls |-> <<FolderQuery, MoveCommand(cutFiles, target)>>,
          notify |-> <<>>]

paste_count_after_clear(cutFiles, target, output) ==
    IF cutFiles = <<>>
    THEN [ok |-> FALSE, msg |-> Msg("nothing_to_move", "", 0),
          cut_files |-> cutFiles, calls |-> <<>>, notify |-> <<>>]
    ELSE IF target = "" \/ ~TargetExists(target)
    THEN [ok |-> FALSE, msg |-> Msg("invalid_target", "", 0),
          cut_files |-> cutFiles, calls |-> <<FolderQuery>>, notify |-> <<>>]
    ELSE IF output = "OK"
    THEN [ok |-> TRUE, msg |-> Msg("moved", "", 0),
          cut_files |-> <<>>,
          calls |-> <<FolderQuery, MoveCommand(cutFiles, target)>>,
          notify |-> << <<>> >>]
    ELSE [ok |-> FALSE, msg |-> Msg("move_failed", output, 0),
          cut_files |-> cutFiles,
          calls |-> <<FolderQuery, MoveCommand(cutFiles, target)>>,
          notify |-> <<>>]

paste_clear_on_failure(cutFiles, target, output) ==
    IF cutFiles = <<>>
    THEN [ok |-> FALSE, msg |-> Msg("nothing_to_move", "", 0),
          cut_files |-> cutFiles, calls |-> <<>>, notify |-> <<>>]
    ELSE IF target = "" \/ ~TargetExists(target)
    THEN [ok |-> FALSE, msg |-> Msg("invalid_target", "", 0),
          cut_files |-> cutFiles, calls |-> <<FolderQuery>>, notify |-> <<>>]
    ELSE IF output = "OK"
    THEN [ok |-> TRUE, msg |-> Msg("moved", "", Len(cutFiles)),
          cut_files |-> <<>>,
          calls |-> <<FolderQuery, MoveCommand(cutFiles, target)>>,
          notify |-> << <<>> >>]
    ELSE [ok |-> FALSE, msg |-> Msg("move_failed", output, 0),
          cut_files |-> <<>>,
          calls |-> <<FolderQuery, MoveCommand(cutFiles, target)>>,
          notify |-> << <<>> >>]

paste(cutFiles, target, output) ==
    IF cutFiles = <<>>
    THEN [ok |-> FALSE, msg |-> Msg("nothing_to_move", "", 0),
          cut_files |-> cutFiles, calls |-> <<>>, notify |-> <<>>]
    ELSE IF target = "" \/ ~TargetExists(target)
    THEN [ok |-> FALSE, msg |-> Msg("invalid_target", "", 0),
          cut_files |-> cutFiles, calls |-> <<FolderQuery>>, notify |-> <<>>]
    ELSE IF output = "OK"
    THEN [ok |-> TRUE, msg |-> Msg("moved", "", Len(cutFiles)),
          cut_files |-> <<>>,
          calls |-> <<FolderQuery, MoveCommand(cutFiles, target)>>,
          notify |-> << <<>> >>]
    ELSE [ok |-> FALSE, msg |-> Msg("move_failed", output, 0),
          cut_files |-> cutFiles,
          calls |-> <<FolderQuery, MoveCommand(cutFiles, target)>>,
          notify |-> <<>>]

(* CutManager.clear()                                                       *)

\* A variant of clear() that empties the list without telling the observers.
clear_silent(cutFiles) == [cut_files |-> <<>>, notify |-> <<>>]

clear(cutFiles) == [cut_files |-> <<>>, notify |-> << <<>> >>]

-----------------------------------------------------------------------------
(* Observations: what the operation that ran last was given, found and      *)
(* returned.  They are written by the actions and read only by the          *)
(* properties.                                                              *)

Obs(op, files, valid, target, output, r) ==
    [op |-> op, files |-> files, valid |-> valid,
     target |-> target, output |-> output,
     pre_cut |-> cut_files, pre_last |-> last_selection,
     success |-> r.success, flag |-> r.flag, msg |-> r.msg,
     calls |-> r.calls, notify |-> r.notify]

NoObs ==
    [op |-> "none", files |-> <<>>, valid |-> <<>>,
     target |-> "", output |-> "",
     pre_cut |-> <<>>, pre_last |-> None,
     success |-> FALSE, flag |-> FALSE, msg |-> NoMsg,
     calls |-> <<>>, notify |-> <<>>]

\* What prev keeps of an observation: the operation and the selection the
\* host reported to it.
Summary(o) ==
    [op |-> o.op, files |-> IF o.op = "cut" THEN o.files ELSE <<>>]

\* The scenario "from Idle, a new-selection cut of S, repeated cuts of S,
\* a successful paste": its stage, S as first reported, whether every cut
\* so far returned what the scenario says, and whether a cut was repeated.
NoScen == [stage |-> "none", sel |-> <<>>, good |-> TRUE, repeated |-> FALSE]

AllExist(files, ex) == SetOf(files) \subseteq ex

ScenAfterCut(files, ex, r) ==
    IF /\ cut_files = <<>> /\ ~Truthy(last_selection)
       /\ files # <<>> /\ AllExist(files, ex)
    THEN [stage |-> "pending", sel |-> files,
          good |-> r.success /\ ~r.should_show_dialog, repeated |-> FALSE]
    ELSE IF /\ scen.stage = "pending" /\ SetOf(files) = SetOf(scen.sel)
            /\ AllExist(files, ex)
    THEN [scen EXCEPT !.good = scen.good /\ r.success /\ r.should_show_dialog,
                      !.repeated = TRUE]
    ELSE NoScen

ScenAfterPaste(r) ==
    IF scen.stage = "pending" /\ r.ok
    THEN [scen EXCEPT !.stage = "pasted"]
    ELSE NoScen

-----------------------------------------------------------------------------
(* The operations.  Each leaves the variables of the other specifications   *)
(* alone.                                                                   *)

cutFrame == UNCHANGED <<cmp, copyVars, tapVars, appVars, triggers>>

\* CutManager.cut(): the host reports `files`, and the paths of `ex` are
\* the reported paths that are on disk when the call looks.
DoCut(files, ex) ==
    LET r == cut(files, last_selection, cut_files, ex)
    IN  /\ cut_files' = r.cut_files
        /\ last_selection' = r.last_selection
        /\ last' = Obs("cut", files, Valid(files, ex), "", "",
                       [success |-> r.success, flag |-> r.should_show_dialog,
                        msg |-> NoMsg, calls |-> r.calls, notify |-> r.notify])
        /\ prev' = Summary(last)
        /\ scen' = ScenAfterCut(files, ex, r)
        /\ UNCHANGED has_cached_files
        /\ cutFrame

\* What a paste leaves behind: the fields and the observation.
PasteEffect(op, target, output, consumed) ==
    LET r == paste(cut_files, target, output)
    IN  /\ cut_files' = r.cut_files
        /\ last' = Obs(op, <<>>, <<>>, target, output,
                       [success |-> r.ok, flag |-> consumed, msg |-> r.msg,
                        calls |-> r.calls, notify |-> r.notify])
        /\ prev' = Summary(last)
        /\ scen' = ScenAfterPaste(r)
        /\ UNCHANGED <<last_selection, has_cached_files>>
        /\ cutFrame

\* CutManager.paste(), called in any state.
DoPaste(target, output) == PasteEffect("paste", target, output, FALSE)

\* CommondXApp.on_paste(): the Cmd+V handler; it returns whether the key
\* event is consumed.
on_paste(target, output) ==
    IF cut_files = <<>>
    THEN /\ last' = Obs("on_paste", <<>>, <<>>, "", "",
                        [success |-> FALSE, flag |-> FALSE, msg |-> NoMsg,
                         calls |-> <<>>, notify |-> <<>>])
         /\ prev' = Summary(last)
         /\ scen' = NoScen
         /\ UNCHANGED <<cut_files, last_selection, has_cached_files>>
         /\ cutFrame
    ELSE PasteEffect("on_paste", target, output, TRUE)

\* StatusBarIcon.clearCut_(): the menu item that calls CutManager.clear().
clearCut ==
    LET r == clear(cut_files)
    IN  /\ cut_files' = r.cut_files
        /\ last' = Obs("clear", <<>>, <<>>, "", "",
                       [success |-> TRUE, flag |-> FALSE, msg |-> NoMsg,
                        calls |-> <<>>, notify |-> r.notify])
        /\ prev' = Summary(last)
        /\ scen' = NoScen
        /\ UNCHANGED <<last_selection, has_cached_files>>
        /\ cutFrame

\* StatusBarIcon._execute_smart_operation(name, func) with files=None, as the
\* smart-operation menu items call it: _get_selected_files() asks the host
\* for the selection and falls back on cached_files; with files in hand the
\* operation runs and last_selection is reset to None.
execute_smart_operation(files) ==
    LET found == files # <<>> \/ has_cached_files
    IN  /\ has_cached_files' = found
        /\ last_selection' = IF found THEN None ELSE last_selection
        /\ last' = Obs("smart_op", files, <<>>, "", "",
                       [success |-> found, flag |-> FALSE, msg |-> NoMsg,
                        calls |-> <<SelectionQuery>>, notify |-> <<>>])
        /\ prev' = Summary(last)
        /\ scen' = NoScen
        /\ UNCHANGED cut_files
        /\ cutFrame

-----------------------------------------------------------------------------
(* The cut manager's specification.                                         *)

\* CutManager.__init__ and StatusBarIcon.initWithCutManager_
InitCut ==
    /\ cut_files = <<>>
    /\ last_selection = None
    /\ has_cached_files = FALSE
    /\ last = NoObs
    /\ prev = Summary(NoObs)
    /\ scen = NoScen

\* The move script runs, and has a reply, only for a target that exists.
MoveRepliesAt(t) == IF TargetExists(t) THEN MoveReplies ELSE {""}

NoCmp == [current |-> None, last |-> None, result |-> FALSE, done |-> FALSE]

\* (Init, the state after construction, follows the copy handler below.)

Next ==
    \/ \E files \in Selections : \E ex \in SUBSET SetOf(files) : DoCut(files, ex)
    \/ \E t \in Targets : \E o \in MoveRepliesAt(t) : DoPaste(t, o)
    \/ \E t \in Targets : \E o \in MoveRepliesAt(t) : on_paste(t, o)
    \/ clearCut
    \/ \E files \in Selections : execute_smart_operation(files)

vars == <<cutVars, cmp, copyVars, tapVars, appVars, triggers>>


-----------------------------------------------------------------------------
(* CommondXApp.on_copy: the repeated-copy detector.  Times are in tenths    *)
(* of a second.  An empty read of the clipboard (None or "") is "".         *)

\* The clock stops here.
MaxTime == 55

\* CommondXApp.COPY_INTERVAL = 5.0 and TRIGGER_COOLDOWN = 3.0
COPY_INTERVAL == 50
TRIGGER_COOLDOWN == 30

\* What the clipboard read of on_copy can end with; "hello " is "hello"
\* followed by a space.
Contents == {"", "hello", "hello ", "world"}

\* The time from one copy event's time.time() to the next one's: at least
\* the sleep of the read loop.
Deltas == {1, 10, 20, 29, 30, 40, 49, 50}

\* content_equal
content_equal(content) ==
    IF content # "" /\ last_clipboard_content # ""
    THEN content = last_clipboard_content
    ELSE FALSE

\* time_diff < self.COPY_INTERVAL, time_diff being infinite while
\* last_copy_time is 0
within_interval(current_time) ==
    last_copy_time > 0 /\ current_time - last_copy_time < COPY_INTERVAL

\* A variant that is in cooldown whatever the content.
in_cooldown_any_content(content, current_time) ==
    last_triggered_time > 0
        /\ current_time - last_triggered_time < TRIGGER_COOLDOWN

\* in_cooldown
in_cooldown(content, current_time) ==
    LET is_same_as_last_trigger ==
            IF content # "" /\ last_triggered_content # ""
            THEN content = last_triggered_content
            ELSE FALSE
        cooling == last_triggered_time > 0
                       /\ current_time - last_triggered_time < TRIGGER_COOLDOWN
    IN  is_same_as_last_trigger /\ cooling

\* A variant without the cooldown.
should_trigger_no_cooldown(content, current_time) ==
    /\ content # ""
    /\ content_equal(content)
    /\ within_interval(current_time)

\* should_trigger
should_trigger(content, current_time) ==
    /\ content # ""
    /\ content_equal(content)
    /\ within_interval(current_time)
    /\ ~in_cooldown(content, current_time)

\* A variant that records nothing of the trigger.
record_trigger_nothing(content, current_time) ==
    [content |-> last_triggered_content, time |-> last_triggered_time]

\* What a trigger records in last_triggered_content and last_triggered_time,
\* before kimi_execute is called.
record_trigger(content, current_time) ==
    [content |-> content, time |-> current_time]

\* StatusBarIcon.show_kimi_result_popup(content, result) is not under src/:
\* it shows the result and returns when the user closes it; copy events are
\* handled while it is open.  This is the on_copy call waiting in it.
show_kimi_result_popup(content, current_time) ==
    [open |-> TRUE, content |-> content, time |-> current_time]

NoPopup == [open |-> FALSE, content |-> "", time |-> 0]

\* The observation of a copy event: what was read and when, how long after
\* the copy event before it, and what on_copy did.
NoEvent ==
    [seen |-> FALSE, content |-> "", time |-> 0, first |-> TRUE, gap |-> 0,
     invoked |-> FALSE, skipped |-> FALSE, api_ok |-> FALSE,
     notified |-> ""]

\* The scenario "after startup, a copy of c, a copy of c one second later,
\* copies of c less than three seconds after that one, a copy of c four
\* seconds after it": its stage, c, the time the stage began, whether a
\* copy came inside the three seconds, whether a result popup was showing
\* when the last copy was handled, and whether every copy so far invoked
\* the processor exactly when the scenario says.
NoCopyScen ==
    [stage |-> "none", content |-> "", at |-> 0, third |-> FALSE,
     in_flight |-> FALSE, good |-> TRUE]

CopyScenAfter(content, current_time, invoked) ==
    IF ~ev.seen /\ content # ""
    THEN [stage |-> "first", content |-> content, at |-> current_time,
          third |-> FALSE, in_flight |-> FALSE, good |-> ~invoked]
    ELSE IF /\ cscen.stage = "first" /\ content = cscen.content
            /\ current_time = cscen.at + 10
    THEN [cscen EXCEPT !.stage = "second", !.at = current_time,
                       !.good = cscen.good /\ invoked]
    ELSE IF /\ cscen.stage = "second" /\ content = cscen.content
            /\ current_time < cscen.at + 30
    THEN [cscen EXCEPT !.third = TRUE, !.good = cscen.good /\ ~invoked]
    ELSE IF /\ cscen.stage = "second" /\ content = cscen.content
            /\ current_time = cscen.at + 40
    THEN [cscen EXCEPT !.stage = "again", !.in_flight = current_alert,
                       !.good = cscen.good /\ invoked]
    ELSE NoCopyScen

copyFrame == UNCHANGED <<cmp, cutVars, tapVars, appVars>>

\* on_copy(), from its entry to its return or to the opening of the result
\* popup: the clipboard read ends with `content`, time.time() is `delta`
\* after the last event's, and kimi_execute succeeds or not (api_ok).
on_copy(content, delta, api_ok) ==
    LET current_time == now + delta
        trigger == should_trigger(content, current_time)
        invoked == trigger /\ ~current_alert
    IN  /\ current_time <= MaxTime
        /\ now' = current_time
        /\ ev' = [seen |-> TRUE, content |-> content, time |-> current_time,
                  first |-> ~ev.seen, gap |-> delta,
                  invoked |-> invoked, skipped |-> trigger /\ current_alert,
                  api_ok |-> invoked /\ api_ok,
                  notified |-> IF invoked /\ ~api_ok THEN "kimi_failed"
                               ELSE ""]
        /\ cscen' = CopyScenAfter(content, current_time, invoked)
        /\ IF trigger /\ current_alert
           THEN \* a popup is showing: return
                UNCHANGED <<last_clipboard_content, last_copy_time,
                            last_triggered_content, last_triggered_time,
                            current_alert, popup>>
           ELSE IF trigger
           THEN /\ last_triggered_content' =
                       record_trigger(content, current_time).content
                /\ last_triggered_time' =
                       record_trigger(content, current_time).time
                /\ IF api_ok
                   THEN /\ current_alert' = TRUE
                        /\ popup' = show_kimi_result_popup(content, current_time)
                        /\ UNCHANGED <<last_clipboard_content, last_copy_time>>
                   ELSE /\ current_alert' = FALSE
                        /\ last_clipboard_content' = content
                        /\ last_copy_time' = current_time
                        /\ UNCHANGED popup
           ELSE /\ last_clipboard_content' = content
                /\ last_copy_time' = current_time
                /\ UNCHANGED <<last_triggered_content, last_triggered_time,
                               current_alert, popup>>
        /\ copyFrame

\* The popup is closed: the finally clause clears _current_alert and
\* on_copy goes on to record its content and time.
popup_closed ==
    /\ popup.open
    /\ current_alert' = FALSE
    /\ last_clipboard_content' = popup.content
    /\ last_copy_time' = popup.time
    /\ popup' = NoPopup
    /\ UNCHANGED <<now, last_triggered_content, last_triggered_time, ev, cscen>>
    /\ copyFrame

\* CommondXApp.init
InitCopy ==
    /\ now = 0
    /\ last_clipboard_content = ""
    /\ last_copy_time = 0
    /\ last_triggered_content = ""
    /\ last_triggered_time = 0
    /\ current_alert = FALSE
    /\ popup = NoPopup
    /\ ev = NoEvent
    /\ cscen = NoCopyScen
    /\ triggers = [c \in Contents |-> 0]

\* A copy event and the closing of the popup, the triggers not followed.
CopyEvent(content, delta, api_ok) ==
    on_copy(content, delta, api_ok) /\ UNCHANGED triggers

PopupClosed == popup_closed /\ UNCHANGED triggers

NextCopy ==
    \/ \E c \in Contents, d \in Deltas, ok \in BOOLEAN : CopyEvent(c, d, ok)
    \/ PopupClosed

\* The same with the time of each content's last trigger followed, over two
\* contents and the gaps at and around the cooldown.
CooldownContents == {"hello", "world"}
CooldownDeltas == {1, 29, 30}

\* The clock of the tracked events stops here.
MaxCooldownTime == 34

TrackedCopyEvent(content, delta, api_ok) ==
    /\ now + delta <= MaxCooldownTime
    /\ on_copy(content, delta, api_ok)
    /\ triggers' = IF ev'.invoked
                   THEN [triggers EXCEPT ![content] = ev'.time]
                   ELSE triggers

NextCooldown ==
    \/ \E c \in CooldownContents, d \in CooldownDeltas, ok \in BOOLEAN :
          TrackedCopyEvent(c, d, ok)
    \/ PopupClosed

-----------------------------------------------------------------------------
(* EventTap: the keyboard hook, its callback and the handlers it calls.     *)

\* The most hooks CGEventTapCreate makes.
MaxHooks == 2

\* Consecutive Cmd+X of one selection are counted up to this.
MaxStreak == 3

\* Key codes of X and V
KEY_X == 7
KEY_V == 9

\* The key codes an event can carry: X, V, C (8) and A (0).
Keycodes == {KEY_X, KEY_V, 8, 0}

\* The events the hook can be called with: the type, the key code and the
\* Cmd, Shift and Option bits of the flags.
Events ==
    [type : {"keyDown", "keyUp"}, keycode : Keycodes,
     cmd : BOOLEAN, shift : BOOLEAN, opt : BOOLEAN]

\* What NSWorkspace reports as the frontmost application.
FrontApps == {"com.apple.finder", "com.apple.Safari"}

\* Where an exception can be raised on the callback's path: nowhere, in the
\* focus query, in the license check, in on_license_invalid, in the handler
\* after its call of the cut manager.  (run_script catches what the bridge
\* raises and returns "".)
Faults == {"none", "focus", "license", "on_license_invalid", "handler"}

\* What the host reports to a cut made through the hook.
TapSelections == {<<>>} \cup {<<p>> : p \in Paths}

\* A variant that takes any modifiers.
accepts_any_modifiers(event) ==
    /\ event.type = "keyDown"
    /\ event.keycode \in {KEY_X, KEY_V}

\* _callback, steps 1 and 2: a key-down of X or V with Cmd and without
\* Shift and Option.
accepts(event) ==
    /\ event.type = "keyDown"
    /\ event.keycode \in {KEY_X, KEY_V}
    /\ ~(~event.cmd \/ event.shift \/ event.opt)

\* A variant that takes every application for Finder.
is_finder_active_always(app) == TRUE

\* EventTap._is_finder_active
is_finder_active(app) == app = "com.apple.finder"

\* A variant of the license test that takes every license for valid.
is_valid_always(licensed) == TRUE

\* license_manager.is_valid(), as _callback asks it.
is_valid(licensed) == licensed

\* A variant of the except clause that lets the exception go.
on_exception_reraise(event) == [returned |-> "nothing", escaped |-> TRUE]

\* _callback's except clause: the exception is printed and the callback
\* falls through to `return event`.
on_exception(event) == [returned |-> "event", escaped |-> FALSE]

\* The names of the bridge calls in a list of calls.
Blocking(calls) == [i \in 1..Len(calls) |-> calls[i].cmd]


\* CommondXApp.on_cut(), the handler of Cmd+X: what it leaves in the cut
\* manager, the bridge calls it made, and whether it returned True.  The
\* smart-operation menu is shown, and caches the files, when cut() says the
\* selection is the one before.
\* A variant that shows the menu for the first repeat only.
on_cut_menu_once(files, ex) ==
    LET r == cut(files, last_selection, cut_files, ex)
        menu == r.success /\ r.should_show_dialog /\ ~has_cached_files
    IN  [handler |-> "on_cut", consumed |-> r.success,
         cut_files |-> r.cut_files, last_selection |-> r.last_selection,
         cached |-> has_cached_files \/ menu,
         menu |-> menu,
         files |-> files, valid |-> Valid(files, ex), success |-> r.success,
         blocking |-> Blocking(r.calls)]

on_cut(files, ex) ==
    LET r == cut(files, last_selection, cut_files, ex)
    IN  [handler |-> "on_cut", consumed |-> r.success,
         cut_files |-> r.cut_files, last_selection |-> r.last_selection,
         cached |-> has_cached_files \/ (r.success /\ r.should_show_dialog),
         menu |-> r.success /\ r.should_show_dialog,
         files |-> files, valid |-> Valid(files, ex), success |-> r.success,
         blocking |-> Blocking(r.calls)]

\* A variant of on_paste() that consumes the key only when the move
\* succeeded.
on_paste_consumes_on_success(target, output) ==
    LET r == paste(cut_files, target, output)
    IN  IF cut_files = <<>>
        THEN [handler |-> "on_paste", consumed |-> FALSE,
              cut_files |-> cut_files, last_selection |-> last_selection,
              cached |-> has_cached_files, menu |-> FALSE,
              files |-> <<>>, valid |-> <<>>, success |-> FALSE,
              blocking |-> <<>>]
        ELSE [handler |-> "on_paste", consumed |-> r.ok,
              cut_files |-> r.cut_files, last_selection |-> last_selection,
              cached |-> has_cached_files, menu |-> FALSE,
              files |-> <<>>, valid |-> <<>>, success |-> r.ok,
              blocking |-> Blocking(r.calls)]

\* CommondXApp.on_paste(), the handler of Cmd+V, likewise.
on_paste_handler(target, output) ==
    LET r == paste(cut_files, target, output)
    IN  IF cut_files = <<>>
        THEN [handler |-> "on_paste", consumed |-> FALSE,
              cut_files |-> cut_files, last_selection |-> last_selection,
              cached |-> has_cached_files, menu |-> FALSE,
              files |-> <<>>, valid |-> <<>>, success |-> FALSE,
              blocking |-> <<>>]
        ELSE [handler |-> "on_paste", consumed |-> TRUE,
              cut_files |-> r.cut_files, last_selection |-> last_selection,
              cached |-> has_cached_files, menu |-> FALSE,
              files |-> <<>>, valid |-> <<>>, success |-> r.ok,
              blocking |-> Blocking(r.calls)]

\* EventTap._callback from `try:` to its return: what it asked, which
\* handler it called, what the handler left, and what it returned ("event":
\* the event, unmodified; "None": the event is swallowed).
run_callback(event, app, licensed, fault, files, ex, target, output) ==
    LET base == [app |-> "unasked", license |-> "unasked", fault |-> "none",
                 handler |-> "none", returned |-> "event", escaped |-> FALSE,
                 cut_files |-> cut_files, last_selection |-> last_selection,
                 cached |-> has_cached_files, menu |-> FALSE,
                 files |-> <<>>, valid |-> <<>>, success |-> FALSE,
                 blocking |-> <<>>]
        raised(b) == [b EXCEPT !.fault = fault,
                               !.returned = on_exception(event).returned,
                               !.escaped = on_exception(event).escaped]
        asked == [base EXCEPT !.app = app]
        checked == [asked EXCEPT
                       !.license = IF licensed THEN "valid" ELSE "invalid"]
        h == IF event.keycode = KEY_X THEN on_cut(files, ex)
             ELSE on_paste_handler(target, output)
        called == [checked EXCEPT !.handler = h.handler,
                                  !.cut_files = h.cut_files,
                                  !.last_selection = h.last_selection,
                                  !.cached = h.cached,
                                  !.menu = h.menu,
                                  !.files = h.files,
                                  !.valid = h.valid,
                                  !.success = h.success,
                                  !.blocking = h.blocking]
    IN  IF ~accepts(event) THEN base
        ELSE IF fault = "focus" THEN raised(base)
        ELSE IF ~is_finder_active(app) THEN asked
        ELSE IF fault = "license" THEN raised(asked)
        ELSE IF ~is_valid(licensed)
             THEN IF fault = "on_license_invalid"
                  THEN raised([checked EXCEPT !.handler = "on_license_invalid"])
                  ELSE [checked EXCEPT !.handler = "on_license_invalid"]
        ELSE IF fault = "handler" THEN raised(called)
        ELSE IF h.consumed THEN [called EXCEPT !.returned = "None"]
        ELSE called

\* The observation of an EventTap operation.
TapObs(op, event, r, trusted, result) ==
    [op |-> op, event |-> event,
     app |-> r.app, license |-> r.license, fault |-> r.fault,
     handler |-> r.handler, returned |-> r.returned, escaped |-> r.escaped,
     blocking |-> r.blocking, menu |-> r.menu,
     files |-> r.files, valid |-> r.valid, success |-> r.success,
     streak |-> IF r.handler = "on_cut" /\ r.fault = "none"
                THEN IF /\ tapobs.op = "callback" /\ tapobs.handler = "on_cut"
                        /\ tapobs.fault = "none"
                        /\ SetOf(tapobs.files) = SetOf(r.files)
                     THEN IF tapobs.streak < MaxStreak
                          THEN tapobs.streak + 1 ELSE MaxStreak
                     ELSE 1
                ELSE 0,
     changed |-> r.cut_files # cut_files \/ r.last_selection # last_selection,
     trusted |-> trusted, result |-> result,
     pre_running |-> running, pre_tap |-> tap, pre_hooks |-> hooks]

NoEventSeen ==
    [type |-> "none", keycode |-> 0, cmd |-> FALSE, shift |-> FALSE,
     opt |-> FALSE]

NoCallback ==
    [app |-> "unasked", license |-> "unasked", fault |-> "none",
     handler |-> "none", returned |-> "event", escaped |-> FALSE,
     cut_files |-> cut_files, last_selection |-> last_selection,
     cached |-> has_cached_files, menu |-> FALSE,
     files |-> <<>>, valid |-> <<>>, success |-> FALSE, blocking |-> <<>>]

tapFrame == UNCHANGED <<cmp, copyVars, last, prev, scen, triggers>>

\* CGEventTapEnable(hook, True): the hooks enabled after it.  Enabling a
\* hook the system has disabled for good changes nothing.
CGEventTapEnable(hook) ==
    IF hook \in dead THEN enabled ELSE enabled \cup {hook}

\* EventTap._callback, called by the system for an enabled hook.
callback(event, app, licensed, fault, files, ex, target, output) ==
    LET r == run_callback(event, app, licensed, fault, files, ex, target, output)
    IN  /\ enabled \cap registered # {}
        /\ enabled' = IF running /\ tap # 0 THEN CGEventTapEnable(tap)
                      ELSE enabled
        /\ cut_files' = r.cut_files
        /\ last_selection' = r.last_selection
        /\ has_cached_files' = r.cached
        /\ tapobs' = TapObs("callback", event, r, FALSE, FALSE)
        /\ UNCHANGED <<tap, running, hooks, registered, dead, appVars>>
        /\ tapFrame


\* What an operation of EventTap leaves: its fields, the hooks on the run
\* loop and the enabled ones, and what it returned.
Hook(t, r, n, reg, en, result) ==
    [tap |-> t, running |-> r, hooks |-> n, registered |-> reg,
     enabled |-> en, result |-> result]

\* A variant that makes a hook whether or not one is running.
start_always_creates(trusted) ==
    IF trusted
    THEN Hook(hooks + 1, TRUE, hooks + 1, registered \cup {hooks + 1},
              enabled \cup {hooks + 1}, TRUE)
    ELSE Hook(0, running, hooks, registered, enabled, FALSE)

\* EventTap.start(): CGEventTapCreate gives a hook when the process is
\* trusted and None when it is not.
start(trusted) ==
    IF running
    THEN Hook(tap, running, hooks, registered, enabled, TRUE)
    ELSE IF trusted
    THEN Hook(hooks + 1, TRUE, hooks + 1, registered \cup {hooks + 1},
              enabled \cup {hooks + 1}, TRUE)
    ELSE Hook(0, running, hooks, registered, enabled, FALSE)

\* A variant that only clears the flag.
stop_keeps_hook == Hook(tap, FALSE, hooks, registered, enabled, TRUE)

\* EventTap.stop()
stop ==
    IF tap # 0
    THEN Hook(0, FALSE, hooks, registered, enabled \ {tap}, TRUE)
    ELSE Hook(tap, FALSE, hooks, registered, enabled, TRUE)

\* EventTap._recreate_tap()
recreate_tap(trusted) ==
    LET en == IF tap # 0 THEN enabled \ {tap} ELSE enabled
    IN  IF trusted
        THEN Hook(hooks + 1, running, hooks + 1, registered \cup {hooks + 1},
                  en \cup {hooks + 1}, TRUE)
        ELSE Hook(0, FALSE, hooks, registered, en, FALSE)

\* EventTap.ensure_enabled(): CGEventTapEnable may raise (enable_fails).
ensure_enabled(trusted, enable_fails) ==
    IF ~running
    THEN Hook(tap, running, hooks, registered, enabled, FALSE)
    ELSE IF tap = 0 THEN recreate_tap(trusted)
    ELSE IF ~enable_fails
    THEN Hook(tap, running, hooks, registered, CGEventTapEnable(tap), TRUE)
    ELSE recreate_tap(trusted)

\* An operation of EventTap takes place: what it leaves in the fields and
\* in the system.
HookFields(op, trusted, h) ==
    /\ h.hooks <= MaxHooks
    /\ tap' = h.tap
    /\ running' = h.running
    /\ hooks' = h.hooks
    /\ registered' = h.registered
    /\ enabled' = h.enabled
    /\ tapobs' = TapObs(op, NoEventSeen, NoCallback, trusted, h.result)
    /\ UNCHANGED <<cut_files, last_selection, has_cached_files, dead>>
    /\ tapFrame

\* An operation of EventTap called on its own.
HookEffect(op, trusted, h) ==
    /\ HookFields(op, trusted, h)
    /\ UNCHANGED appVars

DoStart(trusted) == HookEffect("start", trusted, start(trusted))

DoStop == HookEffect("stop", FALSE, stop)

DoEnsureEnabled(trusted, enable_fails) ==
    HookEffect("ensure_enabled", trusted,
               ensure_enabled(trusted, enable_fails))

\* EventTap.__init__
InitTap ==
    /\ tap = 0
    /\ running = FALSE
    /\ hooks = 0
    /\ registered = {}
    /\ enabled = {}
    /\ dead = {}
    /\ tapobs = [op |-> "none", event |-> NoEventSeen,
                 app |-> "unasked", license |-> "unasked", fault |-> "none",
                 handler |-> "none", returned |-> "event", escaped |-> FALSE,
                 blocking |-> <<>>, menu |-> FALSE,
                 files |-> <<>>, valid |-> <<>>, success |-> FALSE,
                 streak |-> 0, changed |-> FALSE,
                 trusted |-> FALSE, result |-> FALSE,
                 pre_running |-> FALSE, pre_tap |-> 0, pre_hooks |-> 0]

\* The system calls the hook with an event.  What the callback does not
\* come to ask is not drawn: the application, the license and the faults
\* for an event it passes at once, the selection for Cmd+V, the target and
\* the move's reply for Cmd+X.
Deliver ==
    \E event \in Events :
        IF ~accepts(event)
        THEN callback(event, "com.apple.finder", TRUE, "none",
                      <<>>, {}, "", "")
        ELSE \E app \in FrontApps, licensed \in BOOLEAN, fault \in Faults :
                IF event.keycode = KEY_X
                THEN \E files \in TapSelections :
                        \E ex \in SUBSET SetOf(files) :
                            callback(event, app, licensed, fault,
                                     files, ex, "", "")
                ELSE \E t \in Targets, o \in MoveReplies :
                        callback(event, app, licensed, fault, <<>>, {}, t, o)

NextTap ==
    \/ Deliver
    \/ \E trusted \in BOOLEAN : DoStart(trusted)
    \/ DoStop
    \/ \E trusted \in BOOLEAN, enable_fails \in BOOLEAN :
          DoEnsureEnabled(trusted, enable_fails)


-----------------------------------------------------------------------------
(* CommondXApp: the permission poll, the manual retry, the recovery         *)
(* handler, and the system disabling a hook by timeout.                     *)

\* The number of polls after which _checkPermission_ gives up.
PERM_CEILING == 30

\* CommondXApp._restore_event_tap_max_attempts
restore_event_tap_max_attempts == 3

\* The recovery handler is not called again once it has failed this many
\* times in a row.
MaxRestoreCalls == 5

\* The selectors of the timers.
CheckPermissionTimer == "_checkPermission:"
RestoreTimer == "_restoreEventTap:"

\* The notifications the code sends are named "need_auth", "auth_timeout",
\* "please_auth", "start_failed" and "started"; "restore_failed" names the
\* report of a recovery that gave up, which the code never sends.

\* The fields of EventTap and the hooks of the system, as they are now.
Cur == Hook(tap, running, hooks, registered, enabled, FALSE)

\* EventTap.start() and EventTap.stop() on the fields an earlier call in
\* the same handler left.
start_after(s, trusted) ==
    IF s.running
    THEN [s EXCEPT !.result = TRUE]
    ELSE IF trusted
    THEN Hook(s.hooks + 1, TRUE, s.hooks + 1, s.registered \cup {s.hooks + 1},
              s.enabled \cup {s.hooks + 1}, TRUE)
    ELSE Hook(0, s.running, s.hooks, s.registered, s.enabled, FALSE)

stop_after(s) ==
    IF s.tap # 0
    THEN Hook(0, FALSE, s.hooks, s.registered, s.enabled \ {s.tap}, TRUE)
    ELSE Hook(s.tap, FALSE, s.hooks, s.registered, s.enabled, TRUE)

\* CommondXApp._start_event_tap(): start() and the notification of its
\* outcome.
start_event_tap(trusted) ==
    LET h == start(trusted)
    IN  [hook |-> h,
         notes |-> IF h.result THEN {"started"} ELSE {"start_failed"}]

\* A variant of _checkPermission_'s test of the count that gives up at the
\* first poll.
poll_gives_up_at_once(count) == TRUE

\* _checkPermission_'s test of the count.
poll_gives_up(count) == count >= PERM_CEILING

\* The observation of an operation of CommondXApp.
AppObs(op, trusted, result, calls, notes) ==
    [op |-> op, trusted |-> trusted, result |-> result,
     calls |-> calls, notes |-> notes,
     pre_running |-> running, pre_tap |-> tap,
     pre_attempts |-> restore_attempts, pre_count |-> perm_count,
     pre_timers |-> timers]

\* The operation makes no call of EventTap.
NoHookCall ==
    /\ UNCHANGED <<tapVars, cut_files, last_selection, has_cached_files>>
    /\ tapFrame

\* CommondXApp.init and the system before the application is launched.
InitApp ==
    /\ granted = FALSE
    /\ launched = FALSE
    /\ perm_count = 0
    /\ timers = {}
    /\ restore_attempts = 0
    /\ notified = {}
    /\ appobs = [op |-> "none", trusted |-> FALSE, result |-> FALSE,
                 calls |-> <<>>, notes |-> {},
                 pre_running |-> FALSE, pre_tap |-> 0,
                 pre_attempts |-> 0, pre_count |-> 0, pre_timers |-> {}]

\* CommondXApp._try_start(), called once by applicationDidFinishLaunching_.
try_start ==
    /\ ~launched
    /\ launched' = TRUE
    /\ IF granted
       THEN LET r == start_event_tap(granted)
            IN  /\ HookFields("start", granted, r.hook)
                /\ notified' = notified \cup r.notes
                /\ appobs' = AppObs("try_start", granted, r.hook.result,
                                    <<"start">>, r.notes)
                /\ UNCHANGED <<perm_count, timers>>
       ELSE /\ NoHookCall
            /\ notified' = notified \cup {"need_auth"}
            /\ perm_count' = 0
            /\ timers' = timers \cup {CheckPermissionTimer}
            /\ appobs' = AppObs("try_start", granted, FALSE, <<>>,
                                {"need_auth"})
    /\ UNCHANGED <<granted, restore_attempts>>

\* CommondXApp._checkPermission_(timer): a tick of the permission poll.
checkPermission ==
    /\ CheckPermissionTimer \in timers
    /\ perm_count' = perm_count + 1
    /\ IF granted
       THEN LET r == start_event_tap(granted)
            IN  /\ HookFields("start", granted, r.hook)
                /\ timers' = timers \ {CheckPermissionTimer}
                /\ notified' = notified \cup r.notes
                /\ appobs' = AppObs("checkPermission", granted,
                                    r.hook.result, <<"start">>, r.notes)
       ELSE IF poll_gives_up(perm_count + 1)
       THEN /\ NoHookCall
            /\ timers' = timers \ {CheckPermissionTimer}
            /\ notified' = notified \cup {"auth_timeout"}
            /\ appobs' = AppObs("checkPermission", granted, FALSE, <<>>,
                                {"auth_timeout"})
       ELSE /\ NoHookCall
            /\ appobs' = AppObs("checkPermission", granted, FALSE, <<>>, {})
            /\ UNCHANGED <<timers, notified>>
    /\ UNCHANGED <<granted, launched, restore_attempts>>

\* CommondXApp.retry_permission_check(), the menu item "check permission".
retry_permission_check ==
    /\ launched
    /\ IF running
       THEN /\ NoHookCall
            /\ appobs' = AppObs("retry_permission_check", granted, TRUE,
                                <<>>, {})
            /\ UNCHANGED notified
       ELSE IF granted
       THEN LET r == start_event_tap(granted)
            IN  /\ HookFields("start", granted, r.hook)
                /\ notified' = notified \cup r.notes
                /\ appobs' = AppObs("retry_permission_check", granted, TRUE,
                                    <<"start">>, r.notes)
       ELSE /\ NoHookCall
            /\ notified' = notified \cup {"please_auth"}
            /\ appobs' = AppObs("retry_permission_check", granted, FALSE,
                                <<>>, {"please_auth"})
    /\ UNCHANGED <<granted, launched, perm_count, timers, restore_attempts>>

\* The user grants or withdraws the permission in the system settings.
set_permission(b) ==
    /\ granted # b
    /\ granted' = b
    /\ UNCHANGED <<launched, perm_count, timers, restore_attempts, notified,
                   appobs>>
    /\ NoHookCall

\* The system disables the hook of a running interceptor because a
\* callback was late; `permanent` says whether the hook can be enabled
\* again.
tap_disabled_by_timeout(permanent) ==
    /\ running /\ tap # 0 /\ tap \in enabled
    /\ enabled' = enabled \ {tap}
    /\ dead' = IF permanent THEN dead \cup {tap} ELSE dead
    /\ UNCHANGED <<tap, running, hooks, registered, tapobs>>
    /\ UNCHANGED <<cut_files, last_selection, has_cached_files, appVars>>
    /\ tapFrame

\* CommondXApp._restoreEventTap_(timer): one recovery attempt.
restoreEventTap(trusted, enable_fails) ==
    LET e == ensure_enabled(trusted, enable_fails)
        stopped == IF e.running THEN stop_after(e) ELSE e
        s == start_after(stopped, trusted)
        h == IF e.result THEN e ELSE s
        calls == IF e.result THEN <<"ensure_enabled">>
                 ELSE IF e.running THEN <<"ensure_enabled", "stop", "start">>
                 ELSE <<"ensure_enabled", "start">>
    IN  /\ restore_attempts < MaxRestoreCalls
        /\ HookFields("restoreEventTap", trusted, h)
        /\ restore_attempts' = IF h.result THEN 0 ELSE restore_attempts + 1
        /\ appobs' = AppObs("restoreEventTap", trusted, h.result, calls, {})
        /\ UNCHANGED <<granted, launched, perm_count, timers, notified>>

\* The interceptor with its recovery handler, each callable at any time.
NextRestore ==
    \/ \E trusted \in BOOLEAN : DoStart(trusted)
    \/ DoStop
    \/ \E trusted \in BOOLEAN, enable_fails \in BOOLEAN :
          DoEnsureEnabled(trusted, enable_fails)
    \/ \E permanent \in BOOLEAN : tap_disabled_by_timeout(permanent)
    \/ \E trusted \in BOOLEAN, enable_fails \in BOOLEAN :
          restoreEventTap(trusted, enable_fails)

\* The application from its launch on: what it schedules and what the menu
\* calls, with the system and the user around it.
NextApp ==
    \/ try_start
    \/ checkPermission
    \/ retry_permission_check
    \/ \E b \in BOOLEAN : set_permission(b)
    \/ \E permanent \in BOOLEAN : tap_disabled_by_timeout(permanent)

-----------------------------------------------------------------------------
(* The specifications.                                                      *)

Init == InitCut /\ InitCopy /\ InitTap /\ InitApp /\ cmp = NoCmp

Spec == Init /\ [][Next]_vars

SpecCopy == Init /\ [][NextCopy]_vars

SpecCooldown == Init /\ [][NextCooldown]_vars

SpecTap == Init /\ [][NextTap]_vars

SpecRestore == Init /\ [][NextRestore]_vars

\* The permission poll is a repeating timer of the run loop: while it is
\* scheduled it fires.
SpecApp == Init /\ [][NextApp]_vars /\ WF_vars(checkPermission)

-----------------------------------------------------------------------------
(* The specification of _is_same_selection: any two arguments cut() can     *)
(* pass it, then the call.                                                  *)

InitSame ==
    /\ InitCut /\ InitCopy /\ InitTap /\ InitApp
    /\ cmp \in {[current |-> Some(c), last |-> l, result |-> FALSE, done |-> FALSE] :
                   c \in Selections, l \in {None} \cup {Some(x) : x \in Selections}}

Compare ==
    /\ ~cmp.done
    /\ cmp' = [cmp EXCEPT !.result = is_same_selection(cmp.current, cmp.last),
                          !.done = TRUE]
    /\ UNCHANGED <<cutVars, copyVars, tapVars, appVars, triggers>>

NextSame == Compare

SpecSame == InitSame /\ [][NextSame]_vars


-----------------------------------------------------------------------------
(* Properties of the cut manager (Spec) and of _is_same_selection           *)
(* (SpecSame).                                                              *)

IsPaste(o) == o.op \in {"paste", "on_paste"}
Disjoint(a, b) == SetOf(a) \cap SetOf(b) = {}
MoveCalls(o) == SelectSeq(o.calls, LAMBDA c : c.cmd = "move")

\* C1: when cut() runs twice in a row and the host reports the same
\* non-empty set of paths both times, in whatever order and with whatever
\* repetitions, and the paths are on disk, the second call returns
\* (True, True) and leaves cut_files as it was.
C1_RepeatedCutSignals ==
    (/\ prev.op = "cut" /\ last.op = "cut"
     /\ last.files # <<>>
     /\ SetOf(prev.files) = SetOf(last.files)
     /\ AllExist(last.files, SetOf(last.valid)))
    => (/\ last.success /\ last.flag
        /\ cut_files = last.pre_cut)

C1_Witness ==
    /\ prev.op = "cut" /\ last.op = "cut"
    /\ prev.files = <<"f1", "f2">> /\ last.files = <<"f2", "f1">>
    /\ last.valid = last.files
    /\ last.success /\ last.flag
    /\ cut_files = <<"f1", "f2">>

\* The step of a cut() of A followed at once by a cut() of a disjoint B,
\* both non-empty and all their paths on disk: `last` is the first call,
\* `last'` the second.
CutThenDisjointCut ==
    /\ last.op = "cut" /\ last'.op = "cut" /\ prev'.op = "cut"
    /\ last.files # <<>> /\ last'.files # <<>>
    /\ prev'.files = last.files
    /\ Disjoint(last.files, last'.files)
    /\ last.valid = last.files /\ last'.valid = last'.files

\* C2 as stated: cut() of A and then of a disjoint B returns (True, False)
\* both times and leaves cut_files equal to B.
C2_Original ==
    [][CutThenDisjointCut =>
          /\ last.success /\ ~last.flag
          /\ last'.success /\ ~last'.flag
          /\ cut_files' = last'.files]_vars

\* C2 as amended: the second call returns (True, False) and leaves cut_files
\* equal to B; the first call returns (True, False) when A is not the set
\* last_selection held before it, and (True, True) when it is.
C2_DisjointCutReplaces ==
    [][CutThenDisjointCut =>
          /\ last'.success /\ ~last'.flag
          /\ cut_files' = last'.files
          /\ last.success
          /\ last.flag = (SetOf(last.files) = SetOf(last.pre_last.list))
          /\ ~last.flag => cut_files = last.files]_vars

C2_Witness ==
    /\ prev.op = "cut" /\ last.op = "cut"
    /\ prev.files = <<"f1">> /\ last.files = <<"f2">>
    /\ last.pre_cut = <<"f1">> /\ last.pre_last = Some(<<"f1">>)
    /\ last.valid = last.files
    /\ last.success /\ ~last.flag
    /\ cut_files = <<"f2">>

\* C3: _is_same_selection is set equality: lists with the same set of
\* entries compare equal whatever their order and repetitions, lists with
\* different sets compare unequal; [] and None compare equal to each other
\* and unequal to every non-empty list.
C3_SameSelectionIsSetEquality ==
    cmp.done =>
        /\ (Truthy(cmp.current) /\ Truthy(cmp.last)) =>
               (cmp.result = (SetOf(cmp.current.list) = SetOf(cmp.last.list)))
        /\ (~Truthy(cmp.current) /\ ~Truthy(cmp.last)) => cmp.result
        /\ (Truthy(cmp.current) # Truthy(cmp.last)) => ~cmp.result

C3_Witness ==
    /\ cmp.done /\ cmp.result
    /\ cmp.current = Some(<<"f1", "f2">>)
    /\ cmp.last = Some(<<"f2", "f1">>)

\* C4: a paste with cut_files empty fails, issues no bridge call (neither
\* the folder query nor the move) and leaves cut_files and last_selection
\* as they were.
C4_EmptyPasteFails ==
    (IsPaste(last) /\ last.pre_cut = <<>>)
    => (/\ ~last.success
        /\ last.calls = <<>>
        /\ cut_files = last.pre_cut
        /\ last_selection = last.pre_last)

C4_Witness ==
    /\ last.op = "paste" /\ last.pre_cut = <<>>
    /\ last.target = "/dest" /\ last.output = "OK"
    /\ last.msg.kind = "nothing_to_move"
    /\ Truthy(last_selection)

\* C5: a paste that succeeds (the move answered "OK") leaves cut_files
\* empty, returns the number of files that were in cut_files, and leaves
\* last_selection as it was.
C5_PasteSuccessClears ==
    (IsPaste(last) /\ last.success)
    => (/\ last.output = "OK"
        /\ cut_files = <<>>
        /\ last.msg.kind = "moved"
        /\ last.msg.count = Len(last.pre_cut)
        /\ last_selection = last.pre_last)

C5_Witness ==
    /\ last.op = "paste" /\ last.success
    /\ Len(last.pre_cut) = 2
    /\ Truthy(last_selection)

\* The text the bridge returned last to a paste: the move's answer when a
\* move was issued, else the folder query's.
BridgeText(o) == IF MoveCalls(o) # <<>> THEN o.output ELSE o.target

FailedPaste(o) == IsPaste(o) /\ o.pre_cut # <<>> /\ ~o.success

\* C6 as stated: a paste that fails with cut_files non-empty carries the
\* bridge's text in its message whatever the reason, leaves cut_files as it
\* was, and issues no move when the target is unavailable.
C6_Original ==
    FailedPaste(last)
    => (/\ last.msg.text = BridgeText(last)
        /\ cut_files = last.pre_cut
        /\ (last.target = "" \/ ~TargetExists(last.target))
               => MoveCalls(last) = <<>>)

\* C6 as amended: such a paste leaves cut_files as it was; with the target
\* unavailable or nonexistent it issues no move and its message is the fixed
\* invalid-target text; otherwise it issued one move of cut_files, the
\* answer was not "OK", and the message carries that answer.
C6_FailedPasteKeepsFiles ==
    FailedPaste(last)
    => (/\ cut_files = last.pre_cut
        /\ last_selection = last.pre_last
        /\ IF last.target = "" \/ ~TargetExists(last.target)
           THEN /\ MoveCalls(last) = <<>>
                /\ last.msg = Msg("invalid_target", "", 0)
           ELSE /\ MoveCalls(last) = <<MoveCommand(last.pre_cut, last.target)>>
                /\ last.output # "OK"
                /\ last.msg = Msg("move_failed", last.output, 0))

C6_Witness ==
    /\ FailedPaste(last)
    /\ last.target = "/dest" /\ last.output = "Error: busy"
    /\ last.msg.text = "Error: busy"
    /\ cut_files = <<"f1", "f2">>

\* C7: from Idle, a new-selection cut of S, then repeated cuts of S, then a
\* paste that succeeds: the first cut returned (True, False), every repeat
\* (True, True), the paste returned success with count |S|, its one move
\* command carried the files of S, and cut_files is empty.
C7_CutRepeatPaste ==
    /\ scen.good
    /\ scen.stage = "pending" => cut_files = scen.sel
    /\ scen.stage = "pasted" =>
           /\ cut_files = <<>>
           /\ IsPaste(last) /\ last.success
           /\ last.msg.count = Len(scen.sel)
           /\ MoveCalls(last) = <<MoveCommand(scen.sel, last.target)>>

C7_Witness ==
    /\ scen.stage = "pasted" /\ scen.repeated
    /\ scen.sel = <<"f1", "f2">>
    /\ last.msg.count = 2


-----------------------------------------------------------------------------
(* The repeated-copy detector (SpecCopy).                                   *)

\* C8 as stated: with MAX_INTERVAL 5 s and COOLDOWN 3 s, two copies of the
\* same non-empty content one second apart after startup invoke the
\* processor once, on the second copy; a copy of that content less than
\* three seconds after the triggering copy does not invoke it; a copy of it
\* four seconds after the triggering copy invokes it again.
C8_Original == cscen.good

\* C8: the same, the copy four seconds after the triggering copy invoking
\* the processor when no result popup is showing as it is handled.
C8_RepeatedCopyScenario == ~cscen.in_flight => cscen.good

\* The scenario ran to its end, with a copy inside the cooldown on the way.
C8_Witness ==
    /\ cscen.stage = "again" /\ cscen.third /\ ~cscen.in_flight
    /\ ev.invoked /\ ev.time = cscen.at + 40

\* C9 as stated: a copy event invokes the processor exactly when its
\* content is non-empty and equal to the last recorded content, its time is
\* more than MIN_INTERVAL (0.1 s, one tick) and less than MAX_INTERVAL after
\* the last recorded copy time, it is not in the cooldown of a trigger on
\* the same content, and no trigger is in flight.
C9_Original ==
    [][now' # now =>
        (ev'.invoked <=>
            /\ ev'.content # ""
            /\ ev'.content = last_clipboard_content
            /\ last_copy_time > 0
            /\ ev'.time - last_copy_time > 1
            /\ ev'.time - last_copy_time < COPY_INTERVAL
            /\ ~(/\ ev'.content = last_triggered_content
                 /\ last_triggered_time > 0
                 /\ ev'.time - last_triggered_time < TRIGGER_COOLDOWN)
            /\ ~current_alert)]_vars

\* C9 with the interval read as on_copy has it, anything less than
\* MAX_INTERVAL after the last recorded copy time: a copy event invokes the
\* processor exactly when the four conditions hold.
C9_InvokedIffConditions ==
    [][now' # now =>
        (ev'.invoked <=>
            /\ ev'.content # ""
            /\ ev'.content = last_clipboard_content
            /\ last_copy_time > 0
            /\ ev'.time - last_copy_time < COPY_INTERVAL
            /\ ~(/\ ev'.content = last_triggered_content
                 /\ last_triggered_time > 0
                 /\ ev'.time - last_triggered_time < TRIGGER_COOLDOWN)
            /\ ~current_alert)]_vars

\* A copy held back only by the trigger in flight, after one that invoked
\* the processor: equal content, inside the interval, out of the cooldown.
C9_Witness ==
    /\ ev.skipped /\ ~ev.invoked /\ popup.open
    /\ ev.content = last_triggered_content
    /\ ev.time - last_triggered_time >= TRIGGER_COOLDOWN

\* C10 as stated: a copy event at most MIN_INTERVAL (0.1 s, one tick) after
\* the copy event before it never invokes the processor, and neither does
\* one MAX_INTERVAL or more after it.
C10_Original ==
    (ev.seen /\ ~ev.first) =>
        /\ ev.gap <= 1 => ~ev.invoked
        /\ ev.gap >= COPY_INTERVAL => ~ev.invoked

\* A copy 0.1 s after the copy before it invoked the processor.
C10_Witness == ev.seen /\ ~ev.first /\ ev.gap = 1 /\ ev.invoked


\* The characters of a content, and the content of a list of characters.
Chars(content) ==
    CASE content = "" -> <<>>
      [] content = "hello" -> <<"h", "e", "l", "l", "o">>
      [] content = "hello " -> <<"h", "e", "l", "l", "o", " ">>
      [] content = "world" -> <<"w", "o", "r", "l", "d">>

RECURSIVE StripLeft(_)
StripLeft(cs) ==
    IF cs # <<>> /\ Head(cs) = " " THEN StripLeft(Tail(cs)) ELSE cs

RECURSIVE StripRight(_)
StripRight(cs) ==
    IF cs # <<>> /\ cs[Len(cs)] = " "
    THEN StripRight(SubSeq(cs, 1, Len(cs) - 1))
    ELSE cs

\* normalize of the specification: leading and trailing whitespace trimmed.
normalize(content) == StripRight(StripLeft(Chars(content)))

\* C11 as stated: a copy event whose content, normalized, is non-empty and
\* equals the normalized last recorded content, inside the interval, out of
\* the cooldown and with no trigger in flight, invokes the processor; and a
\* copy event whose normalized content equals the normalized content of the
\* last trigger less than COOLDOWN after it does not.
C11_Original ==
    [][now' # now =>
        LET same == normalize(ev'.content) = normalize(last_clipboard_content)
            cooling == /\ normalize(ev'.content) = normalize(last_triggered_content)
                       /\ last_triggered_time > 0
                       /\ ev'.time - last_triggered_time < TRIGGER_COOLDOWN
        IN  /\ (/\ normalize(ev'.content) # <<>> /\ same
                /\ last_copy_time > 0
                /\ ev'.time - last_copy_time < COPY_INTERVAL
                /\ ~cooling /\ ~current_alert) => ev'.invoked
            /\ (normalize(ev'.content) # <<>> /\ cooling) => ~ev'.invoked]_vars

\* Two copies that differ only in a trailing space, one second apart, the
\* second of which did not invoke the processor.
C11_Witness ==
    /\ ev.seen /\ ~ev.first /\ ev.gap = 10 /\ ~ev.invoked /\ ~popup.open
    /\ ev.content = "hello " /\ cscen.stage = "none"
    /\ last_triggered_time = 0 /\ now = 11


\* C12: a copy event that invokes the processor has recorded its content
\* and time as the last trigger, and no copy event handled while the result
\* popup of a trigger is open invokes the processor.
C12_TriggerRecordedFirst ==
    /\ ev.invoked =>
          /\ last_triggered_content = ev.content
          /\ last_triggered_time = ev.time
    /\ (popup.open /\ ev.time > popup.time) => ~ev.invoked

\* A copy of the triggering content handled while the popup is open, less
\* than COOLDOWN after the trigger.
C12_Witness ==
    /\ popup.open /\ ev.time > popup.time /\ ev.content = popup.content
    /\ ~ev.invoked /\ ev.time - popup.time < TRIGGER_COOLDOWN


\* C13 as stated: when on_copy returns from a copy event, whatever the
\* outcome, the last recorded content is the content it read and the last
\* recorded copy time is its time.  (A copy event that opened the result
\* popup has not returned yet.)
C13_Original ==
    [][(now' # now /\ ~(ev'.invoked /\ ev'.api_ok)) =>
          /\ last_clipboard_content' = ev'.content
          /\ last_copy_time' = ev'.time]_vars

\* A copy event held back by the trigger in flight returned without
\* recording its content or its time.
C13_Witness ==
    /\ ev.skipped /\ popup.open
    /\ last_copy_time # ev.time


-----------------------------------------------------------------------------
(* The keyboard hook (SpecTap).                                             *)

\* Cmd without Shift and Option on a key-down.
PlainCmdKeyDown(event) ==
    event.type = "keyDown" /\ event.cmd /\ ~event.shift /\ ~event.opt

\* The callback passed the event on and did nothing else.
PassedThrough(o) ==
    /\ o.returned = "event" /\ o.handler = "none"
    /\ o.blocking = <<>> /\ ~o.changed

\* C14: the callback passes through, and calls no handler for, every event
\* that is not a key-down, whose key is none of X, V and C, that lacks Cmd
\* or that carries Shift or Option.
C14_OnlyShortcutsReachHandlers ==
    (/\ tapobs.op = "callback"
     /\ ~(PlainCmdKeyDown(tapobs.event)
            /\ tapobs.event.keycode \in {KEY_X, KEY_V, 8}))
    => PassedThrough(tapobs)

\* Cmd+Shift+X in Finder with a valid license was passed through.
C14_Witness ==
    /\ tapobs.op = "callback" /\ tapobs.event.type = "keyDown"
    /\ tapobs.event.keycode = KEY_X
    /\ tapobs.event.cmd /\ tapobs.event.shift /\ ~tapobs.event.opt
    /\ tapobs.returned = "event" /\ tapobs.handler = "none"

\* C15: when Finder is not the frontmost application, Cmd+X and Cmd+V are
\* passed through, no handler runs, no bridge call is made and cut_files
\* and last_selection stay as they were.
C15_NotFinderPassesThrough ==
    (/\ tapobs.op = "callback"
     /\ PlainCmdKeyDown(tapobs.event)
     /\ tapobs.event.keycode \in {KEY_X, KEY_V}
     /\ tapobs.fault = "none"
     /\ tapobs.app # "com.apple.finder")
    => PassedThrough(tapobs)

\* Cmd+V outside Finder with files waiting to be moved.
C15_Witness ==
    /\ tapobs.op = "callback" /\ PlainCmdKeyDown(tapobs.event)
    /\ tapobs.event.keycode = KEY_V
    /\ tapobs.app = "com.apple.Safari"
    /\ cut_files # <<>> /\ tapobs.returned = "event"

\* C16 as stated: Cmd+C without Shift and Option reaches the copy handler,
\* whichever application is frontmost.
C16_Original ==
    (/\ tapobs.op = "callback"
     /\ PlainCmdKeyDown(tapobs.event)
     /\ tapobs.event.keycode = 8)
    => tapobs.handler = "on_copy"

\* Cmd+C was passed through without a handler being called.
C16_Witness ==
    /\ tapobs.op = "callback" /\ PlainCmdKeyDown(tapobs.event)
    /\ tapobs.event.keycode = 8
    /\ tapobs.handler = "none" /\ tapobs.app = "unasked"

\* C17 as stated: no bridge call is made between the callback's entry and
\* its return.
C17_Original == tapobs.op = "callback" => tapobs.blocking = <<>>

\* The folder query and the move ran inside the callback.
C17_Witness ==
    /\ tapobs.op = "callback" /\ tapobs.handler = "on_paste"
    /\ tapobs.blocking = <<"folder", "move">>

\* C18: whatever raises on the callback's path, the callback returns the
\* event and no exception leaves it.
C18_ExceptionsPassEventThrough ==
    tapobs.op = "callback" =>
        /\ ~tapobs.escaped
        /\ tapobs.fault # "none" => tapobs.returned = "event"

\* The Cmd+X handler raised after cut() had recorded the files.
C18_Witness ==
    /\ tapobs.op = "callback" /\ tapobs.fault = "handler"
    /\ tapobs.handler = "on_cut" /\ tapobs.changed /\ cut_files # <<>>
    /\ tapobs.returned = "event"

\* C19: after stop(), in whatever state it was called, the interceptor is
\* not running and holds no hook, the hook it held is disabled, and another
\* stop() leaves everything as it is.
C19_StopIdempotent ==
    tapobs.op = "stop" =>
        /\ ~running /\ tap = 0
        /\ tapobs.pre_tap \notin enabled
        /\ stop = Hook(tap, running, hooks, registered, enabled, TRUE)

\* stop() on a running interceptor.
C19_Witness ==
    /\ tapobs.op = "stop" /\ tapobs.pre_running /\ tapobs.pre_tap # 0
    /\ tapobs.pre_tap \in registered

\* C20: start() on an interceptor that is not running makes a hook, puts it
\* on the run loop, enables it and returns True when the process is
\* trusted, and returns False and leaves the interceptor not running when
\* it is not; start() on a running interceptor returns True and makes no
\* hook.
C20_StartContract ==
    tapobs.op = "start" =>
        /\ (~tapobs.pre_running /\ tapobs.trusted) =>
              /\ tapobs.result /\ running
              /\ hooks = tapobs.pre_hooks + 1 /\ tap = hooks
              /\ tap \in registered /\ tap \in enabled
        /\ (~tapobs.pre_running /\ ~tapobs.trusted) =>
              /\ ~tapobs.result /\ ~running /\ tap = 0
              /\ hooks = tapobs.pre_hooks
        /\ tapobs.pre_running =>
              /\ tapobs.result /\ running
              /\ hooks = tapobs.pre_hooks /\ tap = tapobs.pre_tap

\* start() on a running interceptor, the process being trusted.
C20_Witness ==
    /\ tapobs.op = "start" /\ tapobs.pre_running /\ tapobs.trusted
    /\ tapobs.result /\ hooks = 1


-----------------------------------------------------------------------------
(* Recovery of the interceptor and the permission poll (SpecRestore,        *)
(* SpecTap, SpecApp).                                                       *)

\* The interceptor holds a hook that is on the run loop, enabled, and not
\* disabled for good: key events reach the callback.
Live ==
    /\ running /\ tap # 0
    /\ tap \in registered /\ tap \in enabled /\ tap \notin dead

\* The interceptor is running on a hook the system has disabled for good.
TimedOut == running /\ tap # 0 /\ tap \in dead

\* C21 as stated: ensure_enabled() on a running interceptor whose hook the
\* system has disabled for good destroys that hook and makes a new one when
\* the process is trusted, and returns True only with a live hook, never
\* after just enabling the dead one again.
C21_Original ==
    (/\ tapobs.op = "ensure_enabled" /\ tapobs.pre_running
     /\ tapobs.pre_tap # 0 /\ tapobs.pre_tap \in dead) =>
        /\ tapobs.trusted =>
               (tap # tapobs.pre_tap /\ hooks = tapobs.pre_hooks + 1 /\ Live)
        /\ tapobs.result => (tap # tapobs.pre_tap /\ Live)

C21_Witness ==
    /\ tapobs.op = "ensure_enabled" /\ tapobs.pre_running /\ tapobs.trusted
    /\ tapobs.pre_tap = 1 /\ 1 \in dead
    /\ tapobs.result
    /\ tap = 1 /\ hooks = 1 /\ running /\ tap \notin enabled

\* C22 as stated: once the system has disabled the hook by timeout while
\* the permission is granted, the interceptor comes to hold a live hook
\* again (unless the permission is withdrawn).
C22_Original == (TimedOut /\ granted) ~> (Live \/ ~granted)

C22_Witness ==
    /\ TimedOut /\ granted /\ tap \notin enabled
    /\ timers = {} /\ restore_attempts = 0
    /\ appobs.op = "retry_permission_check" /\ appobs.result
    /\ appobs.pre_running /\ appobs.pre_tap = tap /\ appobs.calls = <<>>

\* C23 as stated: when the smart-operation menu shown for a repeated cut
\* has returned, recovery attempts are scheduled.
C23_Original ==
    [][(tapobs'.op = "callback" /\ tapobs'.menu) =>
          RestoreTimer \in timers']_vars

C23_Witness ==
    /\ tapobs.op = "callback" /\ tapobs.handler = "on_cut" /\ tapobs.menu
    /\ tapobs.returned = "None" /\ has_cached_files
    /\ timers = {} /\ restore_attempts = 0

\* C24 as stated: the recovery handler makes no attempt once
\* restore_event_tap_max_attempts attempts have failed in a row, and the
\* attempt that fails as the last of them sends the persistent-failure
\* notification and leaves the interceptor stopped.
C24_Original ==
    appobs.op = "restoreEventTap" =>
        /\ appobs.pre_attempts >= restore_event_tap_max_attempts =>
               (appobs.calls = <<>> /\ ~running)
        /\ (/\ ~appobs.result
            /\ appobs.pre_attempts + 1 >= restore_event_tap_max_attempts)
               => ("restore_failed" \in notified /\ ~running)

C24_Witness ==
    /\ appobs.op = "restoreEventTap"
    /\ appobs.pre_attempts = restore_event_tap_max_attempts
    /\ appobs.calls = <<"ensure_enabled", "start">>
    /\ appobs.trusted /\ appobs.result /\ ~appobs.pre_running
    /\ running /\ restore_attempts = 0
    /\ "restore_failed" \notin notified

-----------------------------------------------------------------------------
(* The cut manager again (Spec): clear(), empty and missing selections.     *)

\* C26: clear() empties cut_files whatever they held, hands the empty list
\* to the observers, and leaves last_selection as it was.
C26_ClearEmptiesAndNotifies ==
    last.op = "clear" =>
        /\ cut_files = <<>>
        /\ last.notify = << <<>> >>
        /\ last_selection = last.pre_last

C26_Witness ==
    /\ last.op = "clear"
    /\ last.pre_cut = <<"f1", "f2">>
    /\ last.pre_last = Some(<<"f1", "f2">>)
    /\ cut_files = <<>> /\ last_selection = Some(<<"f1", "f2">>)

\* C27: a cut() whose selection query came back empty (nothing selected or
\* the script failed) leaves last_selection empty, returns (False, False)
\* and does not touch cut_files; that holds for each of several such calls
\* in a row, none of which is reported as a repeat.
C27_EmptyQueryIsNoCut ==
    (last.op = "cut" /\ last.files = <<>>) =>
        /\ ~last.success /\ ~last.flag
        /\ last_selection = Some(<<>>) /\ ~Truthy(last_selection)
        /\ cut_files = last.pre_cut
        /\ last.notify = <<>>

C27_Witness ==
    /\ prev.op = "cut" /\ prev.files = <<>>
    /\ last.op = "cut" /\ last.files = <<>>
    /\ last.pre_last = Some(<<>>)
    /\ last.pre_cut = <<"f1">> /\ cut_files = <<"f1">>
    /\ ~last.success /\ ~last.flag

\* A cut() that was given paths none of which is on disk.
MissingCut(o) == o.op = "cut" /\ o.files # <<>> /\ o.valid = <<>>

\* C28 as stated: a cut() of a non-empty selection none of whose paths
\* exists resets last_selection to empty and returns (False, False), and a
\* cut() of the same paths that follows it, once they exist, returns
\* (True, False).
C28_Original ==
    [][MissingCut(last) =>
          /\ ~last.success /\ ~last.flag
          /\ ~Truthy(last_selection)
          /\ (/\ last'.op = "cut" /\ last'.valid # <<>>
              /\ SetOf(last'.files) = SetOf(last.files))
                 => (last'.success /\ ~last'.flag)]_vars

C28_Witness ==
    /\ prev.op = "cut" /\ prev.files = <<"f1">>
    /\ last.op = "cut" /\ last.files = <<"f1">> /\ last.valid = <<"f1">>
    /\ last.pre_last = Some(<<"f1">>) /\ last.pre_cut = <<>>
    /\ last.success /\ last.flag
    /\ cut_files = <<>>

\* C29 as stated: after a cut() that was given at least one existing path,
\* last_selection holds exactly the reported paths that exist, the repeat
\* test has compared those with the previous last_selection, and no missing
\* path is in last_selection.
C29_Original ==
    (last.op = "cut" /\ last.valid # <<>>) =>
        /\ Truthy(last_selection)
        /\ SetOf(last_selection.list) = SetOf(last.valid)
        /\ last.flag = is_same_selection(Some(last.valid), last.pre_last)

C29_Witness ==
    /\ last.op = "cut"
    /\ last.files = <<"f1", "f2">> /\ last.valid = <<"f1">>
    /\ last_selection = Some(<<"f1", "f2">>)
    /\ last.pre_last = Some(<<"f1">>)
    /\ last.success /\ ~last.flag

\* C30: cut_files changes only in a cut() of a new selection that returns
\* (True, False), which assigns the existing paths it was given, in a
\* paste() that succeeds and in clear(), which both empty it; so it is
\* non-empty only after such a cut with no successful paste or clear since.
\* A repeated cut, a failed cut, a failed paste and a secondary action leave
\* it as it was.
C30_OnlyNewCutFills ==
    [][/\ cut_files' # cut_files =>
            \/ /\ last'.op = "cut" /\ last'.success /\ ~last'.flag
               /\ cut_files' = last'.valid /\ cut_files' # <<>>
            \/ /\ IsPaste(last') /\ last'.success /\ cut_files' = <<>>
            \/ /\ last'.op = "clear" /\ cut_files' = <<>>
       /\ (last'.op = "cut" /\ ~(last'.success /\ ~last'.flag))
              => cut_files' = cut_files
       /\ (IsPaste(last') /\ ~last'.success) => cut_files' = cut_files
       /\ last'.op = "smart_op" => cut_files' = cut_files
      ]_vars

C30_Witness ==
    /\ last.op = "cut" /\ last.success /\ last.flag
    /\ last.files = <<"f2", "f1">>
    /\ last.pre_cut = <<"f1", "f2">> /\ cut_files = <<"f1", "f2">>
    /\ prev.op \in {"paste", "on_paste"}

-----------------------------------------------------------------------------
(* The cut manager's states (Spec): repeats, the secondary action and the   *)
(* observers.                                                               *)

\* C31 as stated: whenever cut() returns (True, True), cut_files is not
\* empty and holds the files of the selection that is repeated.
C31_Original ==
    (last.op = "cut" /\ last.success /\ last.flag) =>
        /\ cut_files # <<>>
        /\ SetOf(cut_files) = SetOf(last.valid)

C31_Witness ==
    /\ last.op = "cut" /\ last.success /\ last.flag
    /\ last.files = <<"f1">> /\ last.valid = <<"f1">>
    /\ prev.op = "on_paste"
    /\ last.pre_cut = <<>> /\ cut_files = <<>>

\* A cut() of existing paths that are, as a set, what last_selection holds,
\* made while cut_files is empty.
RepeatOnEmpty(o) ==
    /\ o.op = "cut" /\ o.pre_cut = <<>> /\ o.valid # <<>>
    /\ Truthy(o.pre_last) /\ SetOf(o.files) = SetOf(o.pre_last.list)

\* C32: a cut() of S made when cut_files is empty (after a successful
\* paste or a clear) and last_selection still holds S returns (True, True)
\* and leaves cut_files empty; an on_paste that follows it finds nothing to
\* move: it issues no bridge call and does not consume the key.
C32_RepeatAfterPasteOrClear ==
    [][RepeatOnEmpty(last) =>
          /\ last.success /\ last.flag
          /\ cut_files = <<>>
          /\ last.notify = <<>>
          /\ last'.op = "on_paste" =>
                 /\ ~last'.success /\ ~last'.flag
                 /\ last'.calls = <<>>
                 /\ cut_files' = <<>>]_vars

C32_Witness ==
    /\ last.op = "on_paste" /\ last.pre_cut = <<>>
    /\ ~last.success /\ ~last.flag /\ last.calls = <<>>
    /\ prev.op = "cut" /\ prev.files = <<"f1", "f2">>
    /\ last_selection = Some(<<"f1", "f2">>)
    /\ cut_files = <<>>

\* C34: once a secondary action has run on files, last_selection is None,
\* and a cut() that follows it with an existing path returns (True, False)
\* and assigns cut_files; after a repeated cut with no secondary action
\* (the menu dismissed) last_selection still holds the selection and a
\* cut() of the same selection returns (True, True) again.
C34_SecondaryActionResets ==
    [][/\ (last.op = "smart_op" /\ last.success) =>
            /\ last_selection = None
            /\ (last'.op = "cut" /\ last'.valid # <<>>) =>
                   /\ last'.success /\ ~last'.flag
                   /\ cut_files' = last'.valid
       /\ (last.op = "cut" /\ last.success /\ last.flag) =>
            /\ last_selection = Some(last.files)
            /\ SetOf(last.files) = SetOf(last.pre_last.list)
            /\ (/\ last'.op = "cut" /\ last'.valid # <<>>
                /\ SetOf(last'.files) = SetOf(last.files)) =>
                   (last'.success /\ last'.flag)]_vars

C34_Witness ==
    /\ last.op = "cut" /\ last.files = <<"f1">> /\ last.valid = <<"f1">>
    /\ prev.op = "smart_op"
    /\ last.pre_last = None /\ last.pre_cut = <<"f1">>
    /\ last.success /\ ~last.flag
    /\ cut_files = <<"f1">>

\* C35: cut(), paste() and clear() tell the observers exactly when they
\* assign cut_files, and what they tell is the list cut_files then holds: a
\* new-selection cut, a successful paste and clear() make one notification
\* with the current cut_files; a repeated cut, a failed cut and a failed
\* paste make none and leave cut_files as it was.
C35_NotifiedWhenAssigned ==
    (last.op \in {"cut", "paste", "on_paste", "clear"}) =>
        /\ last.notify \in {<<>>, <<cut_files>>}
        /\ last.notify = <<>> => cut_files = last.pre_cut
        /\ (last.op = "cut" /\ last.success /\ ~last.flag)
               => last.notify = <<cut_files>>
        /\ (last.op = "cut" /\ ~(last.success /\ ~last.flag))
               => last.notify = <<>>
        /\ IsPaste(last) => (last.notify # <<>>) = last.success
        /\ last.op = "clear" => last.notify = << <<>> >>

C35_Witness ==
    /\ last.op = "paste" /\ last.success
    /\ last.pre_cut = <<"f1", "f2">>
    /\ last.notify = << <<>> >> /\ cut_files = <<>>

-----------------------------------------------------------------------------
(* The key events and the handlers (SpecTap).                               *)

\* The callback that made tapobs called the handler `name`, which returned.
Handled(o, name) ==
    o.op = "callback" /\ o.handler = name /\ o.fault = "none"

\* C33: every Cmd+X of a selection with an existing path that comes after a
\* Cmd+X of the same selection (the second, the third and every later one
\* in a row) is consumed and shows the smart-operation menu, and leaves
\* cut_files as it was.
C33_RepeatEveryTime ==
    [][(/\ Handled(tapobs', "on_cut") /\ tapobs'.streak >= 2
        /\ tapobs'.valid # <<>>) =>
          /\ tapobs'.success /\ tapobs'.returned = "None"
          /\ tapobs'.menu /\ has_cached_files'
          /\ cut_files' = cut_files]_vars

C33_Witness ==
    /\ Handled(tapobs, "on_cut") /\ tapobs.streak = MaxStreak
    /\ tapobs.files = <<"f1">> /\ tapobs.valid = <<"f1">>
    /\ tapobs.menu /\ tapobs.returned = "None"
    /\ cut_files = <<"f1">>

\* C36: Cmd+V in Finder is consumed exactly when cut_files is not empty as
\* the event arrives, whether the move then succeeds or fails, and is
\* returned to the system when cut_files is empty; Cmd+X in Finder is
\* consumed exactly when cut() reports success, which it does exactly when
\* a selected path exists.
C36_ConsumedIffHandled ==
    [][/\ Handled(tapobs', "on_paste") =>
            ((tapobs'.returned = "None") = (cut_files # <<>>))
       /\ Handled(tapobs', "on_cut") =>
            /\ (tapobs'.returned = "None") = tapobs'.success
            /\ tapobs'.success = (tapobs'.valid # <<>>)
       /\ tapobs'.op = "callback" => tapobs'.returned \in {"None", "event"}
      ]_vars

C36_Witness ==
    /\ Handled(tapobs, "on_paste")
    /\ tapobs.returned = "None" /\ ~tapobs.success
    /\ tapobs.blocking = <<"folder", "move">>
    /\ cut_files # <<>>

\* C37: with the license not valid, an accepted key event in Finder calls
\* on_license_invalid and neither on_cut nor on_paste, leaves cut_files and
\* last_selection as they were, makes no bridge call and is returned
\* unmodified.
C37_InvalidLicensePassesThrough ==
    (tapobs.op = "callback" /\ tapobs.license = "invalid") =>
        /\ tapobs.handler = "on_license_invalid"
        /\ ~tapobs.changed /\ ~tapobs.menu
        /\ tapobs.blocking = <<>>
        /\ tapobs.returned = "event" /\ ~tapobs.escaped

C37_Witness ==
    /\ tapobs.op = "callback" /\ tapobs.license = "invalid"
    /\ tapobs.fault = "none"
    /\ tapobs.event.keycode = KEY_V /\ tapobs.app = "com.apple.finder"
    /\ tapobs.handler = "on_license_invalid"
    /\ cut_files # <<>> /\ tapobs.returned = "event"

-----------------------------------------------------------------------------
(* The interceptor's fields (SpecRestore).                                  *)

\* C38: between the operations of the interceptor, running is set exactly
\* when tap holds a hook; an ensure_enabled() whose recreation fails leaves
\* running clear and tap empty; ensure_enabled() on a stopped interceptor
\* returns False and changes nothing; and a stopped interceptor comes to
\* run only by a start() that succeeds (called directly or by the recovery
\* handler).
C38_RunningIffHook ==
    /\ [](running = (tap # 0))
    /\ []((tapobs.op = "ensure_enabled" /\ ~tapobs.result) =>
             (~running /\ tap = 0))
    /\ []((tapobs.op = "ensure_enabled" /\ ~tapobs.pre_running) =>
             (~tapobs.result /\ hooks = tapobs.pre_hooks))
    /\ [][(~running /\ running') =>
              /\ tapobs'.op \in {"start", "restoreEventTap"}
              /\ tapobs'.result /\ tapobs'.trusted
              /\ hooks' = hooks + 1 /\ tap' = hooks']_vars

C38_Witness ==
    /\ tapobs.op = "ensure_enabled" /\ tapobs.pre_running
    /\ tapobs.pre_tap = 1 /\ ~tapobs.trusted
    /\ ~tapobs.result
    /\ tapobs.pre_hooks = 1 /\ hooks = 1
    /\ ~running /\ tap = 0

-----------------------------------------------------------------------------
(* The cooldown of the copy trigger (SpecCooldown, SpecCopy).               *)

\* The copy event that makes ev' is not the first, reads what the last
\* event recorded, comes inside the interval, reads something else than
\* what triggered last, and no popup is showing.
RepeatedOtherContent ==
    /\ ev'.content # "" /\ ev'.content = last_clipboard_content
    /\ last_copy_time > 0 /\ ev'.time - last_copy_time < COPY_INTERVAL
    /\ ev'.content # last_triggered_content
    /\ ~current_alert

\* C39 as stated: two triggers for the same content are at least
\* TRIGGER_COOLDOWN apart, whatever triggered in between; the first copy
\* event never triggers; and a content copied twice inside the interval
\* triggers while another content is in cooldown.
C39_Original ==
    [][now' # now =>
          /\ (ev'.invoked /\ triggers[ev'.content] > 0) =>
                 ev'.time - triggers[ev'.content] >= TRIGGER_COOLDOWN
          /\ ev'.first => ~ev'.invoked
          /\ RepeatedOtherContent => ev'.invoked]_vars

\* C39 as amended: a trigger for the content that triggered last is at
\* least TRIGGER_COOLDOWN after that trigger; the first copy event never
\* triggers; and a content copied twice inside the interval triggers while
\* another content is in cooldown.
C39_CooldownOfLastTrigger ==
    [][now' # now =>
          /\ (/\ ev'.invoked /\ last_triggered_time > 0
              /\ ev'.content = last_triggered_content) =>
                 ev'.time - last_triggered_time >= TRIGGER_COOLDOWN
          /\ ev'.first => ~ev'.invoked
          /\ RepeatedOtherContent => ev'.invoked]_vars

C39_Witness ==
    /\ ev.invoked /\ ev.content = "world" /\ ev.gap = 1
    /\ triggers["hello"] > 0
    /\ ev.time - triggers["hello"] < TRIGGER_COOLDOWN
    /\ triggers["world"] = ev.time

=============================================================================
